---- MODULE Spec2Model ----
(***************************************************************************)
(* Product catalog service: the cache-aware product repository             *)
(* (internal/product/repository) and the product service that drives it    *)
(* (internal/product/service).  The relational store and the Redis cache   *)
(* are shared by all request goroutines; every store query and every cache *)
(* call is one atomic step of the goroutine that issues it.                *)
(*                                                                         *)
(* Strings that take part in cache keys are sequences of one-character     *)
(* strings, so that key construction and the glob patterns of KEYS are     *)
(* computed character by character.  UUIDs are small positive integers     *)
(* (0 is uuid.Nil), float/int fields are integers, SKUs are opaque         *)
(* integers (0 is the empty string).  name/description/image_url are       *)
(* handled alike by the code; name stands for the three.                   *)
(***************************************************************************)
EXTENDS Integers, Sequences, FiniteSets, TLC

\* ---------------------------------------------------------------- bounds
MaxPrice == 2
NumIds == 2

\* ------------------------------------------------------ program constants
DefaultLimit == 20
MaxLimit == 100
EntityTtl == 10
CollectionTtl == 5

\* ------------------------------------------------------------- literals
StrProductPrefix == <<"p", "r", "o", "d", "u", "c", "t", ":">>
StrProductsPrefix == <<"p", "r", "o", "d", "u", "c", "t", "s", ":">>
StrProductsList == <<"p", "r", "o", "d", "u", "c", "t", "s", ":", "l", "i", "s", "t">>
StrCat == <<":", "c", "a", "t", "_">>
StrActive == <<":", "a", "c", "t", "i", "v", "e", "_">>
StrStock == <<":", "s", "t", "o", "c", "k", "_">>
StrLimit == <<":", "l", "i", "m", "i", "t", "_">>
StrOffset == <<":", "o", "f", "f", "s", "e", "t", "_">>
StrSort == <<":", "s", "o", "r", "t", "_">>
StrTrue == <<"t", "r", "u", "e">>
StrFalse == <<"f", "a", "l", "s", "e">>
StrCreatedAt == <<"c", "r", "e", "a", "t", "e", "d", "_", "a", "t">>
StrDesc == <<"d", "e", "s", "c">>
StrPrice == <<"p", "r", "i", "c", "e">>
StrEmpty == <<>>

\* An optional (pointer) field: {} is nil, {v} points to v.
None == {}
Some(v) == {v}
IsSet(o) == o # {}
Val(o) == CHOOSE v \in o : TRUE

\* ------------------------------------------------------------ formatting
DigitChar == <<"0", "1", "2", "3", "4", "5", "6", "7", "8", "9">>

RECURSIVE FmtNat(_)
\* fmt "%d" of a non-negative int
FmtNat(n) == IF n < 10 THEN <<DigitChar[n + 1]>>
             ELSE FmtNat(n \div 10) \o <<DigitChar[(n % 10) + 1]>>

\* fmt "%d"
FmtInt(n) == IF n < 0 THEN <<"-">> \o FmtNat(0 - n) ELSE FmtNat(n)

\* fmt "%t"
FmtBool(b) == IF b THEN StrTrue ELSE StrFalse

\* uuid.UUID.String(): a fixed-length rendering, one character per id here
UuidStr(id) == <<DigitChar[id + 1]>>

IsPrefix(pre, s) == Len(pre) <= Len(s) /\ SubSeq(s, 1, Len(pre)) = pre

\* ------------------------------------------------------------- entities
NoCategory == [id |-> 0, name |-> StrEmpty, parent |-> 0, active |-> FALSE]

\* A product as GetByID / List return it: the row plus the preloaded Category.
NoProduct == [id |-> 0, name |-> StrEmpty, price |-> 0, cat |-> 0, stock |-> 0,
              sku |-> 0, active |-> FALSE, category |-> NoCategory]

\* The columns of the products table for a loaded product.
Row(p) == [id |-> p.id, name |-> p.name, price |-> p.price, cat |-> p.cat,
           stock |-> p.stock, sku |-> p.sku, active |-> p.active]

\* Preload("Category")
Preload(row, categories) ==
    [id |-> row.id, name |-> row.name, price |-> row.price, cat |-> row.cat,
     stock |-> row.stock, sku |-> row.sku, active |-> row.active,
     category |-> IF row.cat \in DOMAIN categories THEN categories[row.cat] ELSE NoCategory]

\* ------------------------------------------------------------ JSON codec
\* json.Marshal(domain.Category): an object, the fields in struct order.
MarshalCategory(c) == <<c.id, c.name, c.parent, c.active>>

\* json.Marshal(domain.Product): "category" is omitted when the pointer is nil.
MarshalProduct(p) ==
    <<p.id, p.name, p.price, p.cat,
      IF p.category = NoCategory THEN <<>> ELSE MarshalCategory(p.category),
      p.stock, p.sku, p.active>>

UnmarshalCategory(j) ==
    IF j = <<>> THEN NoCategory
    ELSE [id |-> j[1], name |-> j[2], parent |-> j[3], active |-> j[4]]

\* json.Unmarshal whose error is ignored: the zero Product is returned
UnmarshalProductIgnoringErrors(j) ==
    IF Len(j) # 8 THEN [ok |-> TRUE, val |-> NoProduct]
    ELSE [ok |-> TRUE,
          val |-> [id |-> j[1], name |-> j[2], price |-> j[3], cat |-> j[4],
                   category |-> UnmarshalCategory(j[5]),
                   stock |-> j[6], sku |-> j[7], active |-> j[8]]]

\* json.Unmarshal into domain.Product
UnmarshalProduct(j) ==
    IF Len(j) # 8 THEN [ok |-> FALSE, val |-> NoProduct]
    ELSE [ok |-> TRUE,
          val |-> [id |-> j[1], name |-> j[2], price |-> j[3], cat |-> j[4],
                   category |-> UnmarshalCategory(j[5]),
                   stock |-> j[6], sku |-> j[7], active |-> j[8]]]

\* json.Marshal(struct{Products, Total})
MarshalList(items, total) ==
    <<[i \in 1..Len(items) |-> MarshalProduct(items[i])], total>>

UnmarshalList(j) ==
    IF Len(j) # 2 THEN [ok |-> FALSE, items |-> <<>>, total |-> 0]
    ELSE [ok |-> TRUE,
          items |-> [i \in 1..Len(j[1]) |-> UnmarshalProduct(j[1][i]).val],
          total |-> j[2]]

\* ------------------------------------------------------------ cache keys
\* fmt.Sprintf("product:%s", id.String())
EntityKeyWithoutId(id) == StrProductPrefix

EntityKeyInListNamespace(id) == StrProductsPrefix \o UuidStr(id)

EntityKey(id) == StrProductPrefix \o UuidStr(id)

\* variants of buildCacheKey with one slip each
KeyOptions(filters) ==
    (IF IsSet(filters.cat) THEN StrCat \o UuidStr(Val(filters.cat)) ELSE <<>>)
    \o (IF IsSet(filters.isActive) THEN StrActive \o FmtBool(Val(filters.isActive)) ELSE <<>>)
    \o (IF IsSet(filters.inStock) THEN StrStock \o FmtBool(Val(filters.inStock)) ELSE <<>>)

KeyTail(filters) ==
    StrLimit \o FmtInt(filters.limit) \o StrOffset \o FmtInt(filters.offset)
    \o StrSort \o filters.sortBy \o <<"_">> \o filters.sortOrder

buildCacheKeyIgnoringMaxPrice(filters) ==
    IF filters.search # StrEmpty \/ IsSet(filters.minPrice) THEN StrEmpty
    ELSE StrProductsList \o KeyOptions(filters) \o KeyTail(filters)

buildCacheKeyIgnoringSearch(filters) ==
    IF IsSet(filters.minPrice) \/ IsSet(filters.maxPrice) THEN StrEmpty
    ELSE StrProductsList \o KeyOptions(filters) \o KeyTail(filters)

buildCacheKeyStockFirst(filters) ==
    IF filters.search # StrEmpty \/ IsSet(filters.minPrice) \/ IsSet(filters.maxPrice)
    THEN StrEmpty
    ELSE StrProductsList
         \o (IF IsSet(filters.inStock) THEN StrStock \o FmtBool(Val(filters.inStock)) ELSE <<>>)
         \o (IF IsSet(filters.cat) THEN StrCat \o UuidStr(Val(filters.cat)) ELSE <<>>)
         \o (IF IsSet(filters.isActive) THEN StrActive \o FmtBool(Val(filters.isActive)) ELSE <<>>)
         \o KeyTail(filters)

\* productRepository.buildCacheKey; <<>> is the empty string (do not cache)
buildCacheKey(filters) ==
    IF filters.search # StrEmpty \/ IsSet(filters.minPrice) \/ IsSet(filters.maxPrice)
    THEN StrEmpty
    ELSE StrProductsList
         \o (IF IsSet(filters.cat) THEN StrCat \o UuidStr(Val(filters.cat)) ELSE <<>>)
         \o (IF IsSet(filters.isActive) THEN StrActive \o FmtBool(Val(filters.isActive)) ELSE <<>>)
         \o (IF IsSet(filters.inStock) THEN StrStock \o FmtBool(Val(filters.inStock)) ELSE <<>>)
         \o StrLimit \o FmtInt(filters.limit) \o StrOffset \o FmtInt(filters.offset)
         \o StrSort \o filters.sortBy \o <<"_">> \o filters.sortOrder

\* ---------------------------------------------------------- cache adapter
\* Every call fails when the cache is unreachable (up = FALSE).  An entry is
\* its payload and the minutes it has left to live; 0 stands for an entry
\* stored without expiry.
EmptyCache == [k \in {} |-> <<>>]

\* redis GET: err == nil only when the key is present
CacheGet(cache, key, up) ==
    IF up /\ key \in DOMAIN cache THEN [ok |-> TRUE, val |-> cache[key].val]
    ELSE [ok |-> FALSE, val |-> <<>>]

\* redis SET key value with expiration 0: the entry never expires
CacheSetWithoutExpiry(cache, key, val, ttl, up) ==
    IF up THEN [k \in DOMAIN cache \cup {key} |->
                  IF k = key THEN [val |-> val, ttl |-> 0] ELSE cache[k]]
    ELSE cache

\* redis SET key value EX ttl
CacheSet(cache, key, val, ttl, up) ==
    IF up THEN [k \in DOMAIN cache \cup {key} |->
                  IF k = key THEN [val |-> val, ttl |-> ttl] ELSE cache[k]]
    ELSE cache

\* Redis after one more minute: entries in their last minute are gone
Elapse(cache) ==
    [k \in {j \in DOMAIN cache : cache[j].ttl # 1} |->
        IF cache[k].ttl = 0 THEN cache[k] ELSE [cache[k] EXCEPT !.ttl = @ - 1]]

\* redis DEL keys...
CacheDelNothing(cache, keys, up) == cache

CacheDel(cache, keys, up) ==
    IF up THEN [k \in DOMAIN cache \ keys |-> cache[k]] ELSE cache

\* redis KEYS prefix*
CacheKeys(cache, prefix, up) ==
    IF up THEN [ok |-> TRUE, keys |-> {k \in DOMAIN cache : IsPrefix(prefix, k)}]
    ELSE [ok |-> FALSE, keys |-> {}]

\* ---------------------------------------------------------- store adapter
StrAsc == <<"a", "s", "c">>

\* db.First(&product, "id = ?", id)
FindByID(store, categories, id) ==
    IF id \in DOMAIN store THEN [found |-> TRUE, val |-> Preload(store[id], categories)]
    ELSE [found |-> FALSE, val |-> NoProduct]

\* db.First(&product, "sku = ?", sku): the first match in primary-key order
FindBySKU(store, categories, sku) ==
    LET hit == {i \in DOMAIN store : store[i].sku = sku}
    IN IF hit = {} THEN [found |-> FALSE, val |-> NoProduct]
       ELSE [found |-> TRUE,
             val |-> Preload(store[CHOOSE i \in hit : \A j \in hit : i <= j], categories)]

\* The unique index on products.sku (gorm:"unique"): no other row holds the SKU.
SkuFree(store, id, sku) == \A i \in DOMAIN store : i = id \/ store[i].sku # sku

\* db.Create(product): INSERT with a generated id
InsertWithoutSku(store, row) ==
    [i \in DOMAIN store \cup {row.id} |-> IF i = row.id THEN [row EXCEPT !.sku = 0] ELSE store[i]]

Insert(store, row) == [i \in DOMAIN store \cup {row.id} |-> IF i = row.id THEN row ELSE store[i]]

\* db.Save(product): UPDATE of all columns by primary key, INSERT when no row matched
Save(store, row) == [i \in DOMAIN store \cup {row.id} |-> IF i = row.id THEN row ELSE store[i]]

\* db.Delete(&Product{}, "id = ?", id): no error when no row matched
DeleteByID(store, id) == [i \in DOMAIN store \ {id} |-> store[i]]

\* strings.ToLower over the letters the inputs use
LowerChar(c) == CASE c = "A" -> "a" [] c = "W" -> "w" [] OTHER -> c

ToLower(s) == [i \in 1..Len(s) |-> LowerChar(s[i])]

\* LIKE '%term%'
Contains(s, term) ==
    \E i \in 0..(Len(s) - Len(term)) : SubSeq(s, i + 1, i + Len(term)) = term

\* The WHERE clauses of List (lines 151-169)
Matches(row, filters) ==
    /\ IsSet(filters.cat) => row.cat = Val(filters.cat)
    /\ IsSet(filters.minPrice) => row.price >= Val(filters.minPrice)
    /\ IsSet(filters.maxPrice) => row.price <= Val(filters.maxPrice)
    /\ filters.search # StrEmpty => Contains(ToLower(row.name), ToLower(filters.search))
    /\ IsSet(filters.isActive) => row.active = Val(filters.isActive)
    /\ (IsSet(filters.inStock) /\ Val(filters.inStock)) => row.stock > 0

MatchingIds(store, filters) == {i \in DOMAIN store : Matches(store[i], filters)}

\* query.Count(&total)
CountRows(store, filters) == Cardinality(MatchingIds(store, filters))

\* ORDER BY <SortBy> <SortOrder>: created_at follows the order of insertion, which
\* is the order of the ids; rows with equal sort values are ordered by id.
SortValue(row, sortBy) == IF sortBy = StrPrice THEN row.price ELSE row.id

Before(a, b, sortBy) ==
    \/ SortValue(a, sortBy) < SortValue(b, sortBy)
    \/ SortValue(a, sortBy) = SortValue(b, sortBy) /\ a.id < b.id

RECURSIVE SortAsc(_, _, _)
SortAsc(store, ids, sortBy) ==
    IF ids = {} THEN <<>>
    ELSE LET m == CHOOSE i \in ids : \A j \in ids \ {i} : Before(store[i], store[j], sortBy)
         IN <<m>> \o SortAsc(store, ids \ {m}, sortBy)

Reverse(s) == [i \in 1..Len(s) |-> s[Len(s) + 1 - i]]

OrderedIds(store, filters) ==
    LET asc == SortAsc(store, MatchingIds(store, filters), filters.sortBy)
    IN IF filters.sortOrder = StrAsc THEN asc ELSE Reverse(asc)

\* Page without the OFFSET clause
PageIgnoringOffset(s, filters) ==
    IF filters.limit > 0 /\ filters.limit < Len(s)
    THEN SubSeq(s, 1, filters.limit) ELSE s

\* OFFSET when offset > 0, LIMIT when limit > 0 (lines 181-187)
Page(s, filters) ==
    LET from == IF filters.offset > 0 THEN filters.offset ELSE 0
        rest == IF from >= Len(s) THEN <<>> ELSE SubSeq(s, from + 1, Len(s))
    IN IF filters.limit > 0 /\ filters.limit < Len(rest)
       THEN SubSeq(rest, 1, filters.limit) ELSE rest

\* query.Find(&products) with Preload("Category")
FindRows(store, categories, filters) ==
    LET ids == Page(OrderedIds(store, filters), filters)
    IN [i \in 1..Len(ids) |-> Preload(store[ids[i]], categories)]

\* The sort clause is valid SQL
SortValid(filters) ==
    /\ filters.sortBy \in {StrCreatedAt, StrPrice}
    /\ filters.sortOrder \in {StrAsc, StrDesc}

\* ------------------------------------------------------------- requests
NoCreateReq == [name |-> StrEmpty, price |-> 0, cat |-> 0, stock |-> 0, sku |-> 0]

NoUpdateReq == [name |-> None, price |-> None, cat |-> None, stock |-> None,
                sku |-> None, active |-> None]

NoFilters == [cat |-> None, minPrice |-> None, maxPrice |-> None, search |-> StrEmpty,
              isActive |-> None, inStock |-> None, limit |-> 0, offset |-> 0,
              sortBy |-> StrEmpty, sortOrder |-> StrEmpty]

\* CreateCategoryRequest / UpdateCategoryRequest: name stands for "" when unset
\* in a create request
NoCategoryReq == [name |-> None, parent |-> None, active |-> None]

\* validator tags of CreateProductRequest
ValidCreate(req) ==
    /\ Len(req.name) >= 1
    /\ req.price > 0
    /\ req.cat # 0
    /\ req.stock >= 0
    /\ req.sku # 0

\* validator tags of UpdateProductRequest (omitempty skips a nil pointer)
ValidUpdate(req) ==
    /\ IsSet(req.price) => Val(req.price) > 0
    /\ IsSet(req.stock) => Val(req.stock) >= 0

\* ListProducts: default values (lines 311-323)
NormalizeWithoutClamp(filters) ==
    [filters EXCEPT !.limit = IF @ <= 0 THEN DefaultLimit ELSE @,
                    !.sortBy = IF @ = StrEmpty THEN StrCreatedAt ELSE @,
                    !.sortOrder = IF @ = StrEmpty THEN StrDesc ELSE @]

Normalize(filters) ==
    LET l1 == IF filters.limit <= 0 THEN DefaultLimit ELSE filters.limit
        l2 == IF l1 > MaxLimit THEN MaxLimit ELSE l1
    IN [filters EXCEPT !.limit = l2,
                       !.sortBy = IF @ = StrEmpty THEN StrCreatedAt ELSE @,
                       !.sortOrder = IF @ = StrEmpty THEN StrDesc ELSE @]

\* UpdateProduct: "Update fields" (lines 251-275)
ApplyUpdate(product, req) ==
    [product EXCEPT !.name = IF IsSet(req.name) THEN Val(req.name) ELSE @,
                    !.price = IF IsSet(req.price) THEN Val(req.price) ELSE @,
                    !.cat = IF IsSet(req.cat) THEN Val(req.cat) ELSE @,
                    !.stock = IF IsSet(req.stock) THEN Val(req.stock) ELSE @,
                    !.sku = IF IsSet(req.sku) THEN Val(req.sku) ELSE @,
                    !.active = IF IsSet(req.active) THEN Val(req.active) ELSE @]

\* ------------------------------------------------- a request in progress
\* The locals of one request goroutine.  pc names the next store or cache call;
\* res is the error class the service returns ("ok" for nil).  ovl and stale
\* are history fields: ovl records that the request overlapped another one,
\* stale that the row read by GetByID was rewritten before it was cached.
\* asked is the filter set as the caller passed it; filters is what
\* ListProducts made of it.
Idle == [op |-> "none", pc |-> "idle", id |-> 0, creq |-> NoCreateReq,
         ureq |-> NoUpdateReq, asked |-> NoFilters, filters |-> NoFilters, key |-> StrEmpty,
         prod |-> NoProduct, keys |-> {}, items |-> <<>>, total |-> 0,
         hasMore |-> FALSE, res |-> "none", cfail |-> FALSE, ovl |-> FALSE,
         stale |-> FALSE, catreq |-> NoCategoryReq, cat |-> NoCategory, cats |-> <<>>]

\* return a value with a nil error
Done(l) == [l EXCEPT !.pc = "done", !.res = "ok", !.key = StrEmpty, !.keys = {},
                      !.creq = NoCreateReq, !.ureq = NoUpdateReq, !.stale = FALSE,
                      !.catreq = NoCategoryReq]

\* return (nil, err)
Fail(l, err) == [l EXCEPT !.pc = "done", !.res = err, !.key = StrEmpty, !.keys = {},
                          !.creq = NoCreateReq, !.ureq = NoUpdateReq, !.stale = FALSE,
                          !.prod = NoProduct, !.items = <<>>, !.total = 0,
                          !.catreq = NoCategoryReq, !.cat = NoCategory]

\* a cache call was made while the cache was unreachable
Noted(l, env) == [l EXCEPT !.cfail = @ \/ ~env.cache]

\* ---- service entry points: validation and defaults, up to the first call
StartGetProduct(id) == [Idle EXCEPT !.op = "GetProduct", !.pc = "get", !.id = id]

StartUpdateProduct(id, req) ==
    LET l == [Idle EXCEPT !.op = "UpdateProduct", !.id = id, !.ureq = req]
    IN IF ValidUpdate(req) THEN [l EXCEPT !.pc = "get"] ELSE Fail(l, "Validation")

StartDeleteProduct(id) == [Idle EXCEPT !.op = "DeleteProduct", !.pc = "get", !.id = id]

StartCreateProduct(req) ==
    LET l == [Idle EXCEPT !.op = "CreateProduct", !.creq = req]
    IN IF ValidCreate(req) THEN [l EXCEPT !.pc = "sku"] ELSE Fail(l, "Validation")

\* SearchProducts(query, filters) is ListProducts with filters.Search = query
StartListProducts(filters) ==
    LET f == Normalize(filters)
        key == buildCacheKey(f)
    IN [Idle EXCEPT !.op = "ListProducts", !.asked = filters, !.filters = f, !.key = key,
                    !.pc = IF key # StrEmpty THEN "lget" ELSE "count"]

\* the category operations of the service
StartCreateCategory(req) ==
    LET l == [Idle EXCEPT !.op = "CreateCategory", !.catreq = req]
    IN IF IsSet(req.name) /\ Len(Val(req.name)) >= 1
       THEN [l EXCEPT !.pc = "cByName"] ELSE Fail(l, "Validation")

StartUpdateCategory(id, req) ==
    LET l == [Idle EXCEPT !.op = "UpdateCategory", !.id = id, !.catreq = req]
    IN IF IsSet(req.name) => Len(Val(req.name)) >= 1
       THEN [l EXCEPT !.pc = "cGet"] ELSE Fail(l, "Validation")

StartDeleteCategory(id) == [Idle EXCEPT !.op = "DeleteCategory", !.pc = "cGet", !.id = id]

StartListCategories == [Idle EXCEPT !.op = "ListCategories", !.pc = "cList"]

StartInvalidate == [Idle EXCEPT !.op = "Invalidate", !.pc = "keysP"]

\* ---- UpdateProduct between GetByID and repo.Update
ToSave(l) == [l EXCEPT !.prod = ApplyUpdate(l.prod, l.ureq), !.pc = "save"]

AfterSku(l) == IF IsSet(l.ureq.cat) THEN [l EXCEPT !.pc = "cat"] ELSE ToSave(l)

\* what the caller of repo.GetByID does with a product (GetProduct,
\* UpdateProduct, DeleteProduct)
AfterGetByID(l) ==
    CASE l.op = "GetProduct" -> Done(l)
      [] l.op = "UpdateProduct" ->
            IF IsSet(l.ureq.sku) /\ Val(l.ureq.sku) # l.prod.sku
            THEN [l EXCEPT !.pc = "sku"] ELSE AfterSku(l)
      [] OTHER -> [l EXCEPT !.pc = "delete"]

\* ---- productRepository.GetByID
\* redis.Get + json.Unmarshal
StepGet(l, sh, env) ==
    LET g == CacheGet(sh.cache, EntityKey(l.id), env.cache)
        u == IF g.ok THEN UnmarshalProduct(g.val) ELSE [ok |-> FALSE, val |-> NoProduct]
    IN IF g.ok /\ u.ok
       THEN [l |-> AfterGetByID([l EXCEPT !.prod = u.val]), sh |-> sh]
       ELSE [l |-> [Noted(l, env) EXCEPT !.pc = "first"], sh |-> sh]

\* db.First whose every error is reported as "not found"
StepFirstNotFoundOnAnyError(l, sh, env) ==
    LET r == FindByID(sh.store, sh.categories, l.id)
    IN IF ~env.db \/ ~r.found THEN [l |-> Fail(l, "NotFound"), sh |-> sh]
       ELSE [l |-> [l EXCEPT !.prod = r.val, !.pc = "set"], sh |-> sh]

\* db.Preload("Category").First
StepFirstCachingMisses(l, sh, env) ==
    LET r == FindByID(sh.store, sh.categories, l.id)
    IN IF ~env.db THEN [l |-> Fail(l, "Internal"), sh |-> sh]
       ELSE IF ~r.found
       THEN [l |-> Fail(l, "NotFound"),
             sh |-> [sh EXCEPT !.cache = CacheSet(sh.cache, EntityKey(l.id),
                                                  MarshalProduct(NoProduct), EntityTtl,
                                                  env.cache)]]
       ELSE [l |-> [l EXCEPT !.prod = r.val, !.pc = "set"], sh |-> sh]

StepFirst(l, sh, env) ==
    LET r == FindByID(sh.store, sh.categories, l.id)
    IN IF ~env.db THEN [l |-> Fail(l, "Internal"), sh |-> sh]
       ELSE IF ~r.found THEN [l |-> Fail(l, "NotFound"), sh |-> sh]
       ELSE [l |-> [l EXCEPT !.prod = r.val, !.pc = "set"], sh |-> sh]

\* json.Marshal + redis.Set
StepSet(l, sh, env) ==
    [l |-> AfterGetByID([Noted(l, env) EXCEPT !.stale = FALSE]),
     sh |-> [sh EXCEPT !.cache = CacheSet(sh.cache, EntityKey(l.id),
                                          MarshalProduct(l.prod), EntityTtl, env.cache)]]

\* GetBySKU that drops the cached copy of the product holding the SKU
StepSkuEvictingHolder(l, sh, env) ==
    LET sku == IF l.op = "CreateProduct" THEN l.creq.sku ELSE Val(l.ureq.sku)
        r == FindBySKU(sh.store, sh.categories, sku)
    IN IF ~env.db THEN [l |-> Fail(l, "Internal"), sh |-> sh]
       ELSE IF r.found
       THEN [l |-> Fail(l, "Conflict"),
             sh |-> [sh EXCEPT !.cache = CacheDel(@, {EntityKey(r.val.id)}, env.cache)]]
       ELSE IF l.op = "CreateProduct" THEN [l |-> [l EXCEPT !.pc = "cat"], sh |-> sh]
       ELSE [l |-> AfterSku(l), sh |-> sh]

\* ---- uniqueness and existence checks of the service
\* repo.GetBySKU and the "SKU already exists" check
StepSku(l, sh, env) ==
    LET sku == IF l.op = "CreateProduct" THEN l.creq.sku ELSE Val(l.ureq.sku)
        r == FindBySKU(sh.store, sh.categories, sku)
    IN IF ~env.db THEN [l |-> Fail(l, "Internal"), sh |-> sh]
       ELSE IF r.found THEN [l |-> Fail(l, "Conflict"), sh |-> sh]
       ELSE IF l.op = "CreateProduct" THEN [l |-> [l EXCEPT !.pc = "cat"], sh |-> sh]
       ELSE [l |-> AfterSku(l), sh |-> sh]

\* repo.GetCategory and the "Category not found" check
StepCat(l, sh, env) ==
    LET cat == IF l.op = "CreateProduct" THEN l.creq.cat ELSE Val(l.ureq.cat)
    IN IF ~env.db THEN [l |-> Fail(l, "Internal"), sh |-> sh]
       ELSE IF cat \notin DOMAIN sh.categories THEN [l |-> Fail(l, "NotFound"), sh |-> sh]
       ELSE IF l.op = "CreateProduct" THEN [l |-> [l EXCEPT !.pc = "create"], sh |-> sh]
       ELSE [l |-> ToSave(l), sh |-> sh]

\* ---- store writes
\* repo.Create of the product built by CreateProduct
StepCreate(l, sh, env) ==
    LET product == [NoProduct EXCEPT !.id = sh.nextId, !.name = l.creq.name,
                                     !.price = l.creq.price, !.cat = l.creq.cat,
                                     !.stock = l.creq.stock, !.sku = l.creq.sku,
                                     !.active = TRUE]
    IN IF ~env.db \/ ~SkuFree(sh.store, 0, l.creq.sku)
       THEN [l |-> Fail(l, "Internal"), sh |-> sh]
       ELSE [l |-> [l EXCEPT !.prod = product, !.id = product.id, !.pc = "keysP"],
             sh |-> [sh EXCEPT !.store = Insert(sh.store, Row(product)),
                               !.nextId = @ + 1]]

\* repo.Update: db.Save
StepSaveInvalidatingAnyway(l, sh, env) ==
    IF ~env.db \/ ~SkuFree(sh.store, l.prod.id, l.prod.sku)
    THEN [l |-> Fail(l, "Internal"),
          sh |-> [sh EXCEPT !.cache = CacheDel(sh.cache, {EntityKey(l.id)}, env.cache)]]
    ELSE [l |-> [l EXCEPT !.pc = "del"],
          sh |-> [sh EXCEPT !.store = Save(sh.store, Row(l.prod))]]

StepSave(l, sh, env) ==
    IF ~env.db \/ ~SkuFree(sh.store, l.prod.id, l.prod.sku)
    THEN [l |-> Fail(l, "Internal"), sh |-> sh]
    ELSE [l |-> [l EXCEPT !.pc = "del"],
          sh |-> [sh EXCEPT !.store = Save(sh.store, Row(l.prod))]]

\* repo.Delete: db.Delete
StepDelete(l, sh, env) ==
    IF ~env.db THEN [l |-> Fail(l, "Internal"), sh |-> sh]
    ELSE [l |-> [l EXCEPT !.pc = "del"],
          sh |-> [sh EXCEPT !.store = DeleteByID(sh.store, l.id)]]

\* repo.Update / repo.Delete: redis.Del of the entity key, then back in the
\* service, which calls InvalidateProductCache
StepDelSkipped(l, sh, env) == [l |-> [l EXCEPT !.pc = "keysP"], sh |-> sh]

StepDel(l, sh, env) ==
    [l |-> [Noted(l, env) EXCEPT !.pc = "keysP"],
     sh |-> [sh EXCEPT !.cache = CacheDel(sh.cache, {EntityKey(l.id)}, env.cache)]]

\* ---- productRepository.InvalidateProductCache
\* The sweep returns ok (nil) or an error.  The service discards what it
\* returns (lines 195, 283, 304); a direct caller of the repository gets it.
FinishSweepPropagating(l, ok) ==
    IF ok THEN Done(l)
    ELSE Fail(l, IF l.op = "Invalidate" THEN "CacheError" ELSE "Internal")

FinishSweep(l, ok) ==
    IF l.op = "Invalidate" /\ ~ok THEN Fail(l, "CacheError") ELSE Done(l)

\* redis.Keys("product:*")
StepKeysP(l, sh, env) ==
    LET r == CacheKeys(sh.cache, StrProductPrefix, env.cache)
    IN IF ~r.ok THEN [l |-> FinishSweep(Noted(l, env), FALSE), sh |-> sh]
       ELSE IF r.keys # {} THEN [l |-> [l EXCEPT !.keys = r.keys, !.pc = "delP"], sh |-> sh]
       ELSE [l |-> [l EXCEPT !.pc = "keysL"], sh |-> sh]

\* return r.redis.Del(ctx, keys...).Err()
StepDelP(l, sh, env) ==
    [l |-> FinishSweep(Noted(l, env), env.cache),
     sh |-> [sh EXCEPT !.cache = CacheDel(sh.cache, l.keys, env.cache)]]

\* redis.Keys("products:*")
\* (a variant that issues DEL although no key matched: Redis rejects a DEL
\* without keys)
StepKeysLDeletingNone(l, sh, env) ==
    LET r == CacheKeys(sh.cache, StrProductsPrefix, env.cache)
    IN IF ~r.ok THEN [l |-> FinishSweep(Noted(l, env), FALSE), sh |-> sh]
       ELSE IF r.keys # {} THEN [l |-> [l EXCEPT !.keys = r.keys, !.pc = "delL"], sh |-> sh]
       ELSE [l |-> FinishSweep(l, FALSE), sh |-> sh]

StepKeysL(l, sh, env) ==
    LET r == CacheKeys(sh.cache, StrProductsPrefix, env.cache)
    IN IF ~r.ok THEN [l |-> FinishSweep(Noted(l, env), FALSE), sh |-> sh]
       ELSE IF r.keys # {} THEN [l |-> [l EXCEPT !.keys = r.keys, !.pc = "delL"], sh |-> sh]
       ELSE [l |-> FinishSweep(l, TRUE), sh |-> sh]

\* return r.redis.Del(ctx, listKeys...).Err()
StepDelL(l, sh, env) ==
    [l |-> FinishSweep(Noted(l, env), env.cache),
     sh |-> [sh EXCEPT !.cache = CacheDel(sh.cache, l.keys, env.cache)]]

\* ---- productRepository.List and the ProductList built by ListProducts
\* (DeleteCategory calls List to see whether the category has products)
ListReturnsWithoutOffset(l) ==
    [Done(l) EXCEPT !.hasMore = l.filters.limit < l.total]

ListReturns(l) ==
    [Done(l) EXCEPT !.hasMore = l.filters.offset + l.filters.limit < l.total]

\* what the caller of repo.List does with the page
AfterList(l) ==
    IF l.op = "DeleteCategory"
    THEN IF Len(l.items) > 0 THEN Fail(l, "Conflict")
         ELSE [l EXCEPT !.pc = "cDelete", !.key = StrEmpty]
    ELSE ListReturns(l)

\* redis.Get + json.Unmarshal of the collection entry
StepLGet(l, sh, env) ==
    LET g == CacheGet(sh.cache, l.key, env.cache)
        u == IF g.ok THEN UnmarshalList(g.val)
             ELSE [ok |-> FALSE, items |-> <<>>, total |-> 0]
    IN IF g.ok /\ u.ok
       THEN [l |-> AfterList([l EXCEPT !.items = u.items, !.total = u.total]), sh |-> sh]
       ELSE [l |-> [Noted(l, env) EXCEPT !.pc = "count"], sh |-> sh]

\* query.Count(&total)
StepCount(l, sh, env) ==
    IF ~env.db THEN [l |-> Fail(l, "Internal"), sh |-> sh]
    ELSE [l |-> [l EXCEPT !.total = CountRows(sh.store, l.filters), !.pc = "find"],
          sh |-> sh]

\* query.Order(...).Offset(...).Limit(...).Find(&products)
StepFind(l, sh, env) ==
    IF ~env.db \/ ~SortValid(l.filters) THEN [l |-> Fail(l, "Internal"), sh |-> sh]
    ELSE LET m == [l EXCEPT !.items = FindRows(sh.store, sh.categories, l.filters)]
         IN [l |-> IF l.key # StrEmpty THEN [m EXCEPT !.pc = "lset"] ELSE AfterList(m),
             sh |-> sh]

\* json.Marshal + redis.Set of the collection entry
StepLSet(l, sh, env) ==
    [l |-> AfterList(Noted(l, env)),
     sh |-> [sh EXCEPT !.cache = CacheSet(sh.cache, l.key,
                                          MarshalList(l.items, l.total), CollectionTtl,
                                          env.cache)]]

\* ---- category operations: the service and the repository calls it makes
\* The unique index on categories.name
NameFree(categories, id, name) ==
    \A c \in DOMAIN categories : c = id \/ categories[c].name # name

\* CreateCategory / UpdateCategory once the checks have passed: the category
\* to write
ToWriteCategory(l) ==
    IF l.op = "CreateCategory"
    THEN [l EXCEPT !.cat = [NoCategory EXCEPT
                               !.name = Val(l.catreq.name),
                               !.parent = IF IsSet(l.catreq.parent)
                                          THEN Val(l.catreq.parent) ELSE 0,
                               !.active = TRUE],
                   !.pc = "cCreate"]
    ELSE [l EXCEPT !.cat = [@ EXCEPT
                               !.name = IF IsSet(l.catreq.name)
                                        THEN Val(l.catreq.name) ELSE @,
                               !.parent = IF IsSet(l.catreq.parent)
                                          THEN Val(l.catreq.parent) ELSE @,
                               !.active = IF IsSet(l.catreq.active)
                                          THEN Val(l.catreq.active) ELSE @],
                   !.pc = "cSave"]

AfterByName(l) ==
    IF IsSet(l.catreq.parent) THEN [l EXCEPT !.pc = "cParent"] ELSE ToWriteCategory(l)

\* repo.GetCategory(id) in UpdateCategory and DeleteCategory
StepCGet(l, sh, env) ==
    IF ~env.db THEN [l |-> Fail(l, "Internal"), sh |-> sh]
    ELSE IF l.id \notin DOMAIN sh.categories THEN [l |-> Fail(l, "NotFound"), sh |-> sh]
    ELSE LET m == [l EXCEPT !.cat = sh.categories[l.id]]
             f == [NoFilters EXCEPT !.cat = Some(l.id), !.limit = 1]
             key == buildCacheKey(f)
         IN [l |-> IF l.op = "DeleteCategory"
                   THEN [m EXCEPT !.filters = f, !.key = key,
                                  !.pc = IF key # StrEmpty THEN "lget" ELSE "count"]
                   ELSE IF IsSet(l.catreq.name) /\ Val(l.catreq.name) # m.cat.name
                   THEN [m EXCEPT !.pc = "cByName"]
                   ELSE AfterByName(m),
             sh |-> sh]

\* repo.GetCategoryByName and the "Category name already exists" check
StepCByName(l, sh, env) ==
    IF ~env.db THEN [l |-> Fail(l, "Internal"), sh |-> sh]
    ELSE IF \E c \in DOMAIN sh.categories : sh.categories[c].name = Val(l.catreq.name)
    THEN [l |-> Fail(l, "Conflict"), sh |-> sh]
    ELSE [l |-> AfterByName(l), sh |-> sh]

\* repo.GetCategory(parent) and the "Parent category not found" check
StepCParent(l, sh, env) ==
    IF ~env.db THEN [l |-> Fail(l, "Internal"), sh |-> sh]
    ELSE IF Val(l.catreq.parent) \notin DOMAIN sh.categories
    THEN [l |-> Fail(l, "NotFound"), sh |-> sh]
    ELSE [l |-> ToWriteCategory(l), sh |-> sh]

\* repo.CreateCategory: db.Create with a generated id
StepCCreate(l, sh, env) ==
    IF ~env.db \/ ~NameFree(sh.categories, 0, l.cat.name)
    THEN [l |-> Fail(l, "Internal"), sh |-> sh]
    ELSE LET c == [l.cat EXCEPT !.id = sh.nextId]
         IN [l |-> Done([l EXCEPT !.cat = c, !.id = c.id]),
             sh |-> [sh EXCEPT !.categories = [i \in DOMAIN @ \cup {c.id} |->
                                                 IF i = c.id THEN c ELSE @[i]],
                               !.nextId = @ + 1]]

\* repo.UpdateCategory with the products' collection entries swept as well
StepCSaveSweeping(l, sh, env) ==
    [l |-> Done(l),
     sh |-> [sh EXCEPT !.categories = [i \in DOMAIN @ \cup {l.cat.id} |->
                                         IF i = l.cat.id THEN l.cat ELSE @[i]],
                       !.cache = CacheDel(@, CacheKeys(@, StrProductsPrefix, env.cache).keys,
                                          env.cache)]]

\* repo.UpdateCategory: db.Save
StepCSave(l, sh, env) ==
    IF ~env.db \/ ~NameFree(sh.categories, l.cat.id, l.cat.name)
    THEN [l |-> Fail(l, "Internal"), sh |-> sh]
    ELSE [l |-> Done(l),
          sh |-> [sh EXCEPT !.categories = [i \in DOMAIN @ \cup {l.cat.id} |->
                                              IF i = l.cat.id THEN l.cat ELSE @[i]]]]

\* repo.DeleteCategory: db.Delete, no error when no row matched
StepCDelete(l, sh, env) ==
    IF ~env.db THEN [l |-> Fail(l, "Internal"), sh |-> sh]
    ELSE [l |-> Done(l),
          sh |-> [sh EXCEPT !.categories = [i \in DOMAIN @ \ {l.id} |-> @[i]]]]

\* repo.ListCategories: the active categories, ORDER BY name ASC.  Names are
\* compared by their first letter; equal names cannot occur (unique index).
StepCList(l, sh, env) ==
    LET letters == <<"a", "b", "c", "d", "e">>
        rank(c) == CHOOSE i \in 1..Len(letters) : letters[i] = sh.categories[c].name[1]
        active == {c \in DOMAIN sh.categories : sh.categories[c].active}
        ahead(c) == Cardinality({d \in active : rank(d) < rank(c)})
    IN IF ~env.db THEN [l |-> Fail(l, "Internal"), sh |-> sh]
       ELSE [l |-> Done([l EXCEPT !.cats =
                           [k \in 1..Cardinality(active) |->
                               sh.categories[CHOOSE c \in active : ahead(c) = k - 1]]]),
             sh |-> sh]

\* ---- one store or cache call of a request
Step(l, sh, env) ==
    CASE l.pc = "get" -> StepGet(l, sh, env)
      [] l.pc = "first" -> StepFirst(l, sh, env)
      [] l.pc = "set" -> StepSet(l, sh, env)
      [] l.pc = "sku" -> StepSku(l, sh, env)
      [] l.pc = "cat" -> StepCat(l, sh, env)
      [] l.pc = "create" -> StepCreate(l, sh, env)
      [] l.pc = "save" -> StepSave(l, sh, env)
      [] l.pc = "delete" -> StepDelete(l, sh, env)
      [] l.pc = "del" -> StepDel(l, sh, env)
      [] l.pc = "keysP" -> StepKeysP(l, sh, env)
      [] l.pc = "delP" -> StepDelP(l, sh, env)
      [] l.pc = "keysL" -> StepKeysL(l, sh, env)
      [] l.pc = "delL" -> StepDelL(l, sh, env)
      [] l.pc = "lget" -> StepLGet(l, sh, env)
      [] l.pc = "count" -> StepCount(l, sh, env)
      [] l.pc = "find" -> StepFind(l, sh, env)
      [] l.pc = "lset" -> StepLSet(l, sh, env)
      [] l.pc = "cGet" -> StepCGet(l, sh, env)
      [] l.pc = "cByName" -> StepCByName(l, sh, env)
      [] l.pc = "cParent" -> StepCParent(l, sh, env)
      [] l.pc = "cCreate" -> StepCCreate(l, sh, env)
      [] l.pc = "cSave" -> StepCSave(l, sh, env)
      [] l.pc = "cDelete" -> StepCDelete(l, sh, env)
      [] l.pc = "cList" -> StepCList(l, sh, env)
      [] OTHER -> [l |-> l, sh |-> sh]

RECURSIVE Run(_, _, _)
\* a request run from its entry to its return with nothing else running
Run(l, sh, env) ==
    IF l.pc \in {"idle", "done"} THEN [l |-> l, sh |-> sh]
    ELSE LET r == Step(l, sh, env) IN Run(r.l, r.sh, env)

\* ================================================================= state
VARIABLES
    store,         \* products table: id -> row
    categories,    \* categories table: id -> row
    nextId,        \* the next generated id (gen_random_uuid)
    cache,         \* Redis: key -> payload
    cacheUp,       \* Redis is reachable
    proc,          \* request goroutine -> its locals
    cacheFaulted,  \* history: some cache call has failed
    poisoned       \* history: ids whose entity key was written from a row
                   \* read before a later rewrite of that row

vars == <<store, categories, nextId, cache, cacheUp, proc, cacheFaulted, poisoned>>

Procs == {"g1", "g2"}

Shared == [store |-> store, categories |-> categories, cache |-> cache, nextId |-> nextId]
Env == [cache |-> cacheUp, db |-> TRUE]

Running(p) == proc[p].pc \notin {"idle", "done"}
Quiet == \A p \in Procs : ~Running(p)

TheCategory == [id |-> 1, name |-> <<"c">>, parent |-> 0, active |-> TRUE]

Init ==
    /\ store = [i \in {} |-> Row(NoProduct)]
    /\ categories = [c \in {1} |-> TheCategory]
    /\ nextId = 1
    /\ cache = EmptyCache
    /\ cacheUp = TRUE
    /\ proc = [p \in Procs |-> Idle]
    /\ cacheFaulted = FALSE
    /\ poisoned = {}

\* ---------------------------------------------------------------- inputs
ProductIds == 1..NumIds
Prices == 1..MaxPrice

\* SKUs are opaque strings: a request names a SKU some product holds, or a new
\* one, and the new one is named after the id the product will get.
KnownSkus == {store[i].sku : i \in DOMAIN store}

\* Products are created at price 1 (0 is rejected) and repriced by updates.
CreateReqs ==
    {[name |-> <<"w">>, price |-> pr, cat |-> c, stock |-> 1, sku |-> s] :
        pr \in {0, 1}, c \in {1, 2}, s \in KnownSkus \cup {nextId}}

UpdateReqs ==
    {[NoUpdateReq EXCEPT !.price = Some(pr)] : pr \in {-1} \cup Prices}
    \cup {[NoUpdateReq EXCEPT !.sku = Some(s)] : s \in KnownSkus}

\* GET /products with no parameters, and a search
PlainFilters == [NoFilters EXCEPT !.sortBy = StrCreatedAt, !.sortOrder = StrDesc]
SearchFilters == [PlainFilters EXCEPT !.search = <<"W">>]
ListInputs == {PlainFilters, SearchFilters}
CacheableInputs == {f \in ListInputs : buildCacheKey(Normalize(f)) # StrEmpty}

\* --------------------------------------------------------------- actions
\* A request served from entry to return while no other request runs; proc[p]
\* holds what it returned until the goroutine ends.
Serve(p, l) ==
    /\ \A q \in Procs : proc[q].pc = "idle"
    /\ LET r == Run(l, Shared, Env)
       IN /\ store' = r.sh.store
          /\ nextId' = r.sh.nextId
          /\ cache' = r.sh.cache
          /\ proc' = [proc EXCEPT ![p] = r.l]
          /\ categories' = r.sh.categories
          /\ cacheFaulted' = (cacheFaulted \/ r.l.cfail)
    /\ UNCHANGED <<cacheUp, poisoned>>

GetProduct(p, id) == Serve(p, StartGetProduct(id))
UpdateProduct(p, id, req) == Serve(p, StartUpdateProduct(id, req))
DeleteProduct(p, id) == Serve(p, StartDeleteProduct(id))
ListProducts(p, filters) == Serve(p, StartListProducts(filters))
InvalidateProductCache(p) == Serve(p, StartInvalidate)

CreateProduct(p, req) ==
    /\ nextId <= NumIds
    /\ Serve(p, StartCreateProduct(req))

Return(p) ==
    /\ proc[p].pc = "done"
    /\ proc' = [proc EXCEPT ![p] = Idle]
    /\ UNCHANGED <<store, categories, nextId, cache, cacheUp, cacheFaulted, poisoned>>

\* Begin with the key formatted from the address of the caller's *bool, which
\* differs from one request to the next, and not from the value it points to.
BeginWithKeyOfPointer(p, l) ==
    /\ ~Running(p)
    /\ LET k == IF l.key # StrEmpty /\ IsSet(l.filters.isActive)
                THEN l.key \o <<p>> ELSE l.key
       IN proc' = [proc EXCEPT ![p] = [l EXCEPT !.key = k]]
    /\ UNCHANGED <<store, categories, nextId, cache, cacheUp, cacheFaulted, poisoned>>

\* A request enters the service on goroutine p while others may be running.
Begin(p, l) ==
    /\ ~Running(p)
    /\ LET busy == \E q \in Procs \ {p} : Running(q)
       IN proc' = [q \in Procs |->
                     IF q = p THEN [l EXCEPT !.ovl = busy]
                     ELSE IF Running(q) THEN [proc[q] EXCEPT !.ovl = TRUE]
                     ELSE proc[q]]
    /\ UNCHANGED <<store, categories, nextId, cache, cacheUp, cacheFaulted, poisoned>>

BeginGetProduct(p, id) == Begin(p, StartGetProduct(id))
BeginUpdateProduct(p, id, req) == Begin(p, StartUpdateProduct(id, req))
BeginDeleteProduct(p, id) == Begin(p, StartDeleteProduct(id))
BeginListProducts(p, filters) == Begin(p, StartListProducts(filters))

BeginCreateProduct(p, req) ==
    /\ nextId <= NumIds
    /\ Begin(p, StartCreateProduct(req))

\* Goroutine p performs its next store or cache call, which succeeds or fails
\* as env says.
AdvanceIn(p, env) ==
    /\ Running(p)
    /\ LET l == proc[p]
           r == Step(l, Shared, env)
           ids == DOMAIN store \cup DOMAIN r.sh.store
           rewritten == {i \in ids : \/ i \notin DOMAIN store
                                     \/ i \notin DOMAIN r.sh.store
                                     \/ store[i] # r.sh.store[i]}
           wrote == l.pc = "set" /\ env.cache
           marked == IF wrote /\ l.stale THEN poisoned \cup {l.id}
                     ELSE IF wrote THEN poisoned \ {l.id}
                     ELSE poisoned
       IN /\ store' = r.sh.store
          /\ nextId' = r.sh.nextId
          /\ cache' = r.sh.cache
          /\ proc' = [q \in Procs |->
                        IF q = p THEN r.l
                        ELSE IF proc[q].pc = "set" /\ proc[q].id \in rewritten
                        THEN [proc[q] EXCEPT !.stale = TRUE]
                        ELSE proc[q]]
          /\ cacheFaulted' = (cacheFaulted \/ r.l.cfail)
          /\ categories' = r.sh.categories
          /\ poisoned' = {i \in marked : EntityKey(i) \in DOMAIN r.sh.cache}
    /\ UNCHANGED cacheUp

Advance(p) == AdvanceIn(p, Env)

\* The store refuses the write p is about to make (connection lost, statement
\* rejected): db.Create, db.Save or db.Delete returns an error.
WritePcs == {"create", "save", "delete"}

StoreWriteFails(p) ==
    /\ proc[p].pc \in WritePcs
    /\ AdvanceIn(p, [cache |-> cacheUp, db |-> FALSE])

\* The store fails the read p is about to make: db.First, Count or Find
\* returns an error other than "record not found".
StoreReadFails(p) ==
    /\ proc[p].pc \in {"first", "sku", "cat", "count", "find"}
    /\ AdvanceIn(p, [cache |-> cacheUp, db |-> FALSE])

\* The caller's context is cancelled right after the store write of repo.Update
\* or repo.Delete: every later call made with that context fails at once.
ContextCancelled(p) ==
    /\ proc[p].pc = "del"
    /\ proc' = [proc EXCEPT ![p] = Run(proc[p], Shared, [cache |-> FALSE, db |-> FALSE]).l]
    /\ cacheFaulted' = TRUE
    /\ UNCHANGED <<store, categories, nextId, cache, cacheUp, poisoned>>

\* Redis becomes unreachable / reachable again; an entry reaches its expiry
\* (Expire, where the passing of time is not followed); a minute passes
\* (MinutePasses).
CacheFails ==
    /\ cacheUp
    /\ cacheUp' = FALSE
    /\ UNCHANGED <<store, categories, nextId, cache, proc, cacheFaulted, poisoned>>

CacheRecovers ==
    /\ ~cacheUp
    /\ cacheUp' = TRUE
    /\ UNCHANGED <<store, categories, nextId, cache, proc, cacheFaulted, poisoned>>

Expire(k) ==
    /\ k \in DOMAIN cache
    /\ cache' = [j \in DOMAIN cache \ {k} |-> cache[j]]
    /\ poisoned' = {i \in poisoned : EntityKey(i) # k}
    /\ UNCHANGED <<store, categories, nextId, cacheUp, proc, cacheFaulted>>

\* The payload under key k is no longer what json.Marshal wrote (truncated,
\* or written by another program): json.Unmarshal will fail on it.
Corrupt(k) ==
    /\ k \in DOMAIN cache
    /\ cache[k].val # <<>>
    /\ cache' = [cache EXCEPT ![k].val = <<>>]
    /\ poisoned' = {i \in poisoned : EntityKey(i) # k}
    /\ UNCHANGED <<store, categories, nextId, cacheUp, proc, cacheFaulted>>

MinutePasses ==
    /\ cache' = Elapse(cache)
    /\ poisoned' = {i \in poisoned : EntityKey(i) \in DOMAIN Elapse(cache)}
    /\ UNCHANGED <<store, categories, nextId, cacheUp, proc, cacheFaulted>>

\* One request at a time; cache entries may expire.
Next ==
    \/ \E id \in ProductIds : GetProduct("g1", id)
    \/ \E id \in ProductIds, req \in UpdateReqs : UpdateProduct("g1", id, req)
    \/ \E id \in ProductIds : DeleteProduct("g1", id)
    \/ \E req \in CreateReqs : CreateProduct("g1", req)
    \/ \E f \in ListInputs : ListProducts("g1", f)
    \/ InvalidateProductCache("g1")
    \/ Return("g1")
    \/ \E k \in DOMAIN cache : Expire(k)

Spec == Init /\ [][Next]_vars

\* Two goroutines, their store and cache calls interleaved, on a catalog that
\* holds one product; the cache stays reachable.
ConcInit ==
    /\ store = [i \in {1} |-> [id |-> 1, name |-> <<"w">>, price |-> 1, cat |-> 1,
                               stock |-> 1, sku |-> 1, active |-> TRUE]]
    /\ categories = [c \in {1} |-> TheCategory]
    /\ nextId = 2
    /\ cache = EmptyCache
    /\ cacheUp = TRUE
    /\ proc = [p \in Procs |-> Idle]
    /\ cacheFaulted = FALSE
    /\ poisoned = {}

PriceUpdates == {[NoUpdateReq EXCEPT !.price = Some(pr)] : pr \in Prices}

ConcNext ==
    \E p \in Procs :
        \/ BeginGetProduct(p, 1)
        \/ \E req \in PriceUpdates : BeginUpdateProduct(p, 1, req)
        \/ BeginDeleteProduct(p, 1)
        \/ BeginListProducts(p, PlainFilters)
        \/ Advance(p)

ConcSpec == ConcInit /\ [][ConcNext]_vars

\* One request at a time on the same catalog, products being added to it and
\* product 1 read, repriced and deleted, while Redis becomes unreachable and
\* reachable again: entries written before an outage outlive the writes made
\* during it.
FaultNext ==
    \/ GetProduct("g1", 1)
    \/ \E req \in PriceUpdates : UpdateProduct("g1", 1, req)
    \/ DeleteProduct("g1", 1)
    \/ \E req \in CreateReqs : CreateProduct("g1", req)
    \/ \E f \in ListInputs : ListProducts("g1", f)
    \/ Return("g1")
    \/ CacheFails
    \/ CacheRecovers

FaultSpec == ConcInit /\ [][FaultNext]_vars

\* One goroutine, call by call, on the same catalog; the store may refuse a
\* write or fail a read, the request context may be cancelled after a write,
\* and a cached payload may become unreadable.
WriteNext ==
    \/ BeginGetProduct("g1", 1)
    \/ \E req \in PriceUpdates : BeginUpdateProduct("g1", 1, req)
    \/ BeginDeleteProduct("g1", 1)
    \/ \E req \in CreateReqs : BeginCreateProduct("g1", req)
    \/ BeginListProducts("g1", PlainFilters)
    \/ Advance("g1")
    \/ StoreWriteFails("g1")
    \/ StoreReadFails("g1")
    \/ ContextCancelled("g1")
    \/ \E k \in DOMAIN cache : Corrupt(k)

WriteSpec == ConcInit /\ [][WriteNext]_vars

\* The same catalog while the minutes pass: two goroutines read product 1 and
\* list the catalog call by call, product 1 is repriced between reads, and
\* each entry lives as long as the expiry it was written with.
TtlNext ==
    \/ \E p \in Procs :
          \/ BeginGetProduct(p, 1)
          \/ BeginListProducts(p, PlainFilters)
          \/ Advance(p)
          \/ Return(p)
    \/ \E req \in PriceUpdates : UpdateProduct("g1", 1, req)
    \/ MinutePasses

TtlSpec == ConcInit /\ [][TtlNext]_vars

\* The same catalog with its categories changing: requests served call by
\* call, one at a time, create, update, delete and list categories, add
\* products to them, read product 1 and list the products of category 1.
CategoryCreates ==
    {[NoCategoryReq EXCEPT !.name = Some(<<"c">>)],
     [NoCategoryReq EXCEPT !.name = Some(<<"d">>), !.parent = Some(1)]}

CategoryUpdates ==
    {[NoCategoryReq EXCEPT !.active = Some(FALSE)],
     [NoCategoryReq EXCEPT !.name = Some(<<"d">>), !.parent = Some(1)]}

CategoryFilters == [NoFilters EXCEPT !.cat = Some(1), !.limit = 1]

CatNext ==
    \/ \E req \in CategoryCreates :
          nextId <= NumIds /\ Begin("g1", StartCreateCategory(req))
    \/ \E id \in DOMAIN categories, req \in CategoryUpdates :
          Begin("g1", StartUpdateCategory(id, req))
    \/ \E id \in DOMAIN categories : Begin("g1", StartDeleteCategory(id))
    \/ Begin("g1", StartListCategories)
    \/ \E c \in DOMAIN categories :
          BeginCreateProduct("g1", [NoCreateReq EXCEPT !.name = <<"w">>, !.price = 1,
                                                     !.cat = c, !.sku = nextId])
    \/ BeginGetProduct("g1", 1)
    \/ BeginListProducts("g1", CategoryFilters)
    \/ Advance("g1")

CatSpec == ConcInit /\ [][CatNext]_vars

\* Two goroutines update product 1 call by call, one request changing the
\* price and another the stock, and read it in between.
FieldUpdates ==
    {[NoUpdateReq EXCEPT !.price = Some(MaxPrice)], [NoUpdateReq EXCEPT !.stock = Some(0)]}

UpdNext ==
    \E p \in Procs :
        \/ \E req \in FieldUpdates : BeginUpdateProduct(p, 1, req)
        \/ BeginGetProduct(p, 1)
        \/ Advance(p)

UpdSpec == ConcInit /\ [][UpdNext]_vars

\* Two goroutines ask for the same new SKU call by call: each creates a
\* product with it or moves product 1 to it.
SkuNext ==
    \E p \in Procs :
        \/ BeginCreateProduct(p, [NoCreateReq EXCEPT !.name = <<"w">>, !.price = 1,
                                                    !.cat = 1, !.sku = 2])
        \/ BeginUpdateProduct(p, 1, [NoUpdateReq EXCEPT !.sku = Some(2)])
        \/ Advance(p)

SkuSpec == ConcInit /\ [][SkuNext]_vars

\* The filter sets GET /products and GET /products/search can build.
KeyFilters ==
    {[cat |-> c, minPrice |-> lo, maxPrice |-> hi, search |-> q, isActive |-> a,
      inStock |-> st, limit |-> n, offset |-> o, sortBy |-> sb, sortOrder |-> so] :
        c \in {None, Some(1)}, lo \in {None, Some(1)}, hi \in {None, Some(MaxPrice)},
        q \in {StrEmpty, <<"W">>}, a \in {None, Some(TRUE)}, st \in {None, Some(FALSE), Some(TRUE)},
        n \in {-1, 0, 1, DefaultLimit, MaxLimit, MaxLimit + 1}, o \in {0, 1},
        sb \in {StrEmpty, StrPrice}, so \in {StrEmpty, StrAsc}}

\* A second filter set built on its own from the same values: fresh pointers,
\* the fields assigned in another order.
Rebuilt(f) ==
    LET opt(o) == IF IsSet(o) THEN Some(Val(o)) ELSE None
        f1 == [NoFilters EXCEPT !.sortOrder = f.sortOrder]
        f2 == [f1 EXCEPT !.sortBy = f.sortBy]
        f3 == [f2 EXCEPT !.offset = f.offset]
        f4 == [f3 EXCEPT !.limit = f.limit]
        f5 == [f4 EXCEPT !.inStock = opt(f.inStock)]
        f6 == [f5 EXCEPT !.isActive = opt(f.isActive)]
        f7 == [f6 EXCEPT !.search = f.search]
        f8 == [f7 EXCEPT !.maxPrice = opt(f.maxPrice)]
        f9 == [f8 EXCEPT !.minPrice = opt(f.minPrice)]
    IN [f9 EXCEPT !.cat = opt(f.cat)]

\* Two requests have arrived with filter sets of equal values; each enters
\* ListProducts and runs call by call over a catalog of three products.
KeyCatalog ==
    <<[id |-> 1, name |-> <<"w">>, price |-> 1, cat |-> 1,
       stock |-> 1, sku |-> 1, active |-> TRUE],
      [id |-> 2, name |-> <<"w">>, price |-> MaxPrice, cat |-> 1,
       stock |-> 0, sku |-> 2, active |-> TRUE],
      [id |-> 3, name |-> <<"x">>, price |-> MaxPrice + 1, cat |-> 1,
       stock |-> 1, sku |-> 3, active |-> FALSE]>>

KeyInit ==
    /\ store = [i \in 1..Len(KeyCatalog) |-> KeyCatalog[i]]
    /\ categories = [c \in {1} |-> TheCategory]
    /\ nextId = Len(KeyCatalog) + 1
    /\ cache = EmptyCache
    /\ cacheUp = TRUE
    /\ \E f \in KeyFilters :
          proc = [p \in Procs |->
                    [Idle EXCEPT !.asked = IF p = "g1" THEN f ELSE Rebuilt(f)]]
    /\ cacheFaulted = FALSE
    /\ poisoned = {}

EnterListProducts(p) ==
    /\ proc[p].op = "none"
    /\ BeginListProducts(p, proc[p].asked)

KeyNext ==
    \E p \in Procs :
        \/ EnterListProducts(p)
        \/ Advance(p)

KeySpec == KeyInit /\ [][KeyNext]_vars

\* ================================================================ claims
Up == [cache |-> TRUE, db |-> TRUE]
Down == [cache |-> FALSE, db |-> TRUE]

Returned(p, ops) == proc[p].pc = "done" /\ proc[p].op \in ops /\ proc[p].res = "ok"

Writes == {"CreateProduct", "UpdateProduct", "DeleteProduct"}

\* what a request entering now, with nothing else running, returns
GetNow(id) == Run(StartGetProduct(id), Shared, Up).l
ListNow(filters) == Run(StartListProducts(filters), Shared, Up).l

\* what the store query of List returns now
StoreItems(filters) == FindRows(store, categories, Normalize(filters))
StoreTotal(filters) == CountRows(store, Normalize(filters))

ListIsFresh ==
    \A f \in CacheableInputs :
        LET r == ListNow(f)
        IN r.res = "ok" /\ r.items = StoreItems(f) /\ r.total = StoreTotal(f)

GetIsFresh(id) ==
    LET r == GetNow(id)
    IN IF id \in DOMAIN store THEN r.res = "ok" /\ Row(r.prod) = store[id]
       ELSE r.res = "NotFound"

CollectionKeys(c) == {k \in DOMAIN c : IsPrefix(StrProductsPrefix, k)}
EntityKeys(c) == {k \in DOMAIN c : IsPrefix(StrProductPrefix, k)}

\* C1: after a CreateProduct, UpdateProduct or DeleteProduct has returned
\* success with the cache reachable and nothing running concurrently, the next
\* ListProducts with any cacheable filter returns the items and the total the
\* store query returns at that moment.
C1_ListFreshAfterWrite ==
    \A p \in Procs :
        (Returned(p, Writes) /\ ~proc[p].cfail) => ListIsFresh

\* C3: with requests served one at a time and the cache reachable, every
\* GetByID(id) returns exactly the fields the store holds for id (NotFound when
\* it holds none), also after the cache was warmed and the price then updated.
C3_GetReturnsStoreRow ==
    \A p \in Procs :
        (proc[p].pc = "done" /\ proc[p].op = "GetProduct") =>
            IF proc[p].id \in DOMAIN store
            THEN proc[p].res = "ok" /\ Row(proc[p].prod) = store[proc[p].id]
            ELSE proc[p].res = "NotFound"

\* C3 witness: a GetProduct returned a price other than the price products are
\* created with, so the product was updated after UpdateProduct's own GetByID
\* had put it in the cache.
C3_Witness ==
    \E p \in Procs :
        /\ Returned(p, {"GetProduct"})
        /\ proc[p].prod.price = MaxPrice
        /\ EntityKey(proc[p].id) \in DOMAIN cache

\* C4: when InvalidateProductCache returns without error and nothing else runs
\* meanwhile, no key under "products:" remains in the cache.
C4_SweepRemovesCollections ==
    \A p \in Procs :
        Returned(p, {"Invalidate"}) => CollectionKeys(cache) = {}

\* C5: the sweep is idempotent: after a first InvalidateProductCache, a second
\* one leaves the store unchanged, no collection entry is in the cache after
\* the first run or after the second, and the second run deletes nothing.
C5_SweepIdempotent ==
    \A p \in Procs :
        Returned(p, {"Invalidate"}) =>
            LET again == Run(StartInvalidate, Shared, Up)
            IN /\ again.l.res = "ok"
               /\ again.sh.store = store
               /\ again.sh.cache = cache
               /\ CollectionKeys(cache) = {}
               /\ CollectionKeys(again.sh.cache) = {}

\* C9: negative results are never cached: a GetByID that finds no row returns
\* NotFound and leaves no entry under the id's key, no entity entry holds a
\* not-found (zero) product, and a product created later is returned by the
\* next GetByID.
C9_NoNegativeCaching ==
    /\ \A p \in Procs :
         (proc[p].pc = "done" /\ proc[p].op = "GetProduct" /\ proc[p].res = "NotFound")
            => EntityKey(proc[p].id) \notin DOMAIN cache
    /\ \A k \in EntityKeys(cache) : UnmarshalProduct(cache[k].val).val.id # 0
    /\ \A p \in Procs :
         Returned(p, {"CreateProduct"}) =>
            /\ GetNow(proc[p].id).res = "ok"
            /\ Row(GetNow(proc[p].id).prod) = store[proc[p].id]

\* C9 witness: GetProduct of an id no product has yet returned NotFound.
C9_Witness ==
    \E p \in Procs :
        /\ proc[p].pc = "done" /\ proc[p].op = "GetProduct"
        /\ proc[p].res = "NotFound"
        /\ proc[p].id >= nextId

\* Another goroutine has rewritten the row of id and not yet deleted its key.
WriteInFlight(p, id) ==
    \E q \in Procs \ {p} : proc[q].pc = "del" /\ proc[q].id = id

C6_NoEntryAfterTwoUpdates ==
    \A p \in Procs, q \in Procs :
        (/\ p # q
         /\ Returned(p, {"UpdateProduct"})
         /\ Returned(q, {"UpdateProduct"})
         /\ proc[p].id = proc[q].id)
            => EntityKey(proc[p].id) \notin DOMAIN cache

\* C6 witness: both updates returned, and they overlapped: each read the row
\* before the other wrote it, so they return different prices.
C6_Witness ==
    \E p \in Procs, q \in Procs :
        /\ p # q
        /\ Returned(p, {"UpdateProduct"})
        /\ Returned(q, {"UpdateProduct"})
        /\ proc[p].ovl /\ proc[q].ovl
        /\ proc[p].prod.price # proc[q].prod.price

\* C7: once a product write and every ListProducts that overlapped it have
\* returned, the first ListProducts after them returns the store's current
\* items and total, under every interleaving.
C7_ListFreshAfterConcurrentWrite ==
    \A p \in Procs :
        (/\ Returned(p, Writes)
         /\ \A q \in Procs \ {p} :
               /\ ~Running(q)
               /\ proc[q].op = "ListProducts" => proc[q].ovl)
            => ListIsFresh

\* C8: when the store write of repo.Update or repo.Delete has succeeded, the
\* key product:<id> is absent when the redis.Del that ends the operation has
\* been made.
C8_EntityKeyDeleted ==
    [][\A p \in Procs :
          (proc[p].pc = "del" /\ proc'[p].pc = "keysP")
              => EntityKey(proc[p].id) \notin DOMAIN cache']_vars

\* C8 witness: repo.Update or repo.Delete has just returned to a service call
\* that nothing overlapped.
C8_Witness ==
    \E p \in Procs :
        /\ proc[p].op \in {"UpdateProduct", "DeleteProduct"}
        /\ proc[p].pc = "keysP"
        /\ ~proc[p].ovl
        /\ EntityKey(proc[p].id) \notin DOMAIN cache

\* Every request a client can send in the current state.
Requests ==
    {StartGetProduct(id) : id \in ProductIds}
    \cup {StartUpdateProduct(id, req) : id \in ProductIds, req \in UpdateReqs}
    \cup {StartDeleteProduct(id) : id \in ProductIds}
    \cup {StartCreateProduct(req) : req \in CreateReqs}
    \cup {StartListProducts(f) : f \in ListInputs}

\* what the caller sees of a finished request
Outcome(l) == [l EXCEPT !.cfail = FALSE]

\* C10: with every cache call failing, each of GetProduct, ListProducts,
\* SearchProducts, CreateProduct, UpdateProduct and DeleteProduct returns the
\* same result or error, and leaves the store in the same state, as the same
\* request served with a reachable, empty cache.
C10_CacheOutageInvisible ==
    \A l \in Requests :
        LET down == Run(l, Shared, Down)
            empty == Run(l, [Shared EXCEPT !.cache = EmptyCache], Up)
        IN /\ Outcome(down.l) = Outcome(empty.l)
           /\ down.sh.store = empty.sh.store
           /\ down.sh.nextId = empty.sh.nextId

\* C10 witness: an UpdateProduct served while Redis was unreachable returned
\* success although its cache calls failed, and left the entry a GetProduct
\* had cached before the outage.
C10_Witness ==
    /\ ~cacheUp
    /\ Returned("g1", {"UpdateProduct"})
    /\ proc["g1"].cfail
    /\ EntityKey(1) \in DOMAIN cache

\* C11: when the store mutation of Create, Update or Delete fails, the
\* operation returns an error at once and the store and the cache are exactly
\* as they were when the write was attempted: no key deleted, no sweep run.
C11_FailedWriteLeavesCache ==
    [][\A p \in Procs :
          (proc[p].pc \in WritePcs /\ proc'[p].pc = "done")
              => /\ proc'[p].res = "Internal"
                 /\ cache' = cache
                 /\ store' = store]_vars

\* C11 witness: an UpdateProduct whose db.Save failed has returned an error and
\* the entry its GetByID cached is still there.
C11_Witness ==
    \E p \in Procs :
        /\ proc[p].op = "UpdateProduct"
        /\ proc[p].pc = "done"
        /\ proc[p].res = "Internal"
        /\ EntityKey(proc[p].id) \in DOMAIN cache
        /\ CollectionKeys(cache) # {}

\* C12: when the caller's context is cancelled right after the store write of
\* Update or Delete, the entity key is still invalidated: once the operation
\* has returned, no entry for the product is cached and GetByID returns the
\* store's row.
C12_InvalidationSurvivesCancel ==
    \A p \in Procs :
        (Returned(p, {"UpdateProduct", "DeleteProduct"}) /\ proc[p].cfail)
            => /\ EntityKey(proc[p].id) \notin DOMAIN cache
               /\ GetIsFresh(proc[p].id)

\* a ListProducts between its entry and its return
Listing(p) == proc[p].op = "ListProducts" /\ Running(p)

Complex(f) == f.search # StrEmpty \/ IsSet(f.minPrice) \/ IsSet(f.maxPrice)

\* C13: buildCacheKey returns the empty string exactly for the filter sets
\* with a non-empty search term or a min-price or max-price bound, and a
\* non-empty key for every other filter set.
C13_NoKeyIffComplex ==
    \A p \in Procs :
        Listing(p) =>
            /\ proc[p].key = buildCacheKey(proc[p].filters)
            /\ proc[p].key = StrEmpty <=> Complex(proc[p].asked)

\* C13 witness: a List whose only complex field is the max-price bound runs
\* without a key.
C13_Witness ==
    \E p \in Procs :
        /\ Listing(p)
        /\ proc[p].key = StrEmpty
        /\ IsSet(proc[p].asked.maxPrice)
        /\ ~IsSet(proc[p].asked.minPrice)
        /\ proc[p].asked.search = StrEmpty

ComplexInputs ==
    {SearchFilters,
     [PlainFilters EXCEPT !.minPrice = Some(1)],
     [PlainFilters EXCEPT !.maxPrice = Some(1)],
     [SearchFilters EXCEPT !.maxPrice = Some(MaxPrice)]}

\* C15: a List or Search with a search term or a price bound leaves the cache
\* as it is, and called twice against an unmodified store it returns the
\* store's current result both times, whatever the cache holds.
C15_ComplexListBypassesCache ==
    \A f \in ComplexInputs :
        LET first == Run(StartListProducts(f), Shared, Up)
            second == Run(StartListProducts(f), first.sh, Up)
        IN /\ first.sh.cache = cache
           /\ second.sh.cache = cache
           /\ first.l.res = "ok"
           /\ first.l.items = StoreItems(f)
           /\ first.l.total = StoreTotal(f)
           /\ second.l = first.l

\* C15 witness: a search has returned a product while collection entries were
\* cached.
C15_Witness ==
    \E p \in Procs :
        /\ Returned(p, {"ListProducts"})
        /\ proc[p].asked.search # StrEmpty
        /\ proc[p].items # <<>>
        /\ CollectionKeys(cache) # {}

\* C16: right after a successful Create(P) no entity entry exists for P, and
\* GetByID(P.id) goes to the store and returns P as it was persisted.
C16_GetAfterCreate ==
    \A p \in Procs :
        Returned(p, {"CreateProduct"}) =>
            LET id == proc[p].id
                miss == Step(StartGetProduct(id), Shared, Up)
                got == Run(StartGetProduct(id), Shared, Up)
            IN /\ EntityKey(id) \notin DOMAIN cache
               /\ miss.l.pc = "first"
               /\ got.l.res = "ok"
               /\ Row(got.l.prod) = Row(proc[p].prod)
               /\ Row(got.l.prod) = store[id]

\* C16 witness: a second product has just been created while a collection
\* entry was cached.
C16_Witness ==
    \E p \in Procs :
        /\ Returned(p, {"CreateProduct"})
        /\ proc[p].id > 1
        /\ CollectionKeys(cache) # {}

\* C20: on a cache with no product key and no collection key the sweep
\* enumerates both namespaces, issues no delete and returns nil, leaving the
\* store and the cache as they are.
C20_EmptySweepIsNoOp ==
    (EntityKeys(cache) = {} /\ CollectionKeys(cache) = {}) =>
        LET a == Step(StartInvalidate, Shared, Up)
            b == Step(a.l, a.sh, Up)
        IN /\ a.l.pc = "keysL"
           /\ a.sh = Shared
           /\ b.l.pc = "done"
           /\ b.l.res = "ok"
           /\ b.sh = Shared

\* C20 witness: InvalidateProductCache has returned nil and the cache is empty
\* while the store holds products.
C20_Witness ==
    \E p \in Procs :
        /\ Returned(p, {"Invalidate"})
        /\ cache = EmptyCache
        /\ DOMAIN store # {}

\* the limit ListProducts is to use for a requested limit
LimitFor(n) == IF n <= 0 THEN 20 ELSE IF n > 100 THEN 100 ELSE n

\* C17: the limit used for the store query, in the cache key and in the
\* returned page is 20 for a request <= 0, 100 for a request > 100 and the
\* requested value otherwise, so it lies in 1..100 and bounds the page.
C17_LimitNormalized ==
    \A p \in Procs :
        proc[p].op = "ListProducts" =>
            LET n == LimitFor(proc[p].asked.limit)
            IN /\ proc[p].filters.limit = n
               /\ n \in 1..100
               /\ Len(proc[p].items) <= n
               /\ (Listing(p) /\ proc[p].key # StrEmpty) =>
                     Contains(proc[p].key, StrLimit \o FmtInt(n) \o StrOffset)

\* C17 witness: a request for 101 items is being served with limit 100 under
\* a key that says so.
C17_Witness ==
    \E p \in Procs :
        /\ Listing(p)
        /\ proc[p].asked.limit > 100
        /\ proc[p].filters.limit = 100
        /\ proc[p].key # StrEmpty

\* every id UuidStr renders
RenderedIds == 0..(Len(DigitChar) - 1)

\* a segment of the key that is present only when the field is set
Segment(o, label, text) == IF IsSet(o) THEN label \o text ELSE <<>>

\* C18: the collection key is products:list, then :cat_<id>, :active_<bool>
\* and :stock_<bool>, each present iff its field is set and in that order,
\* then :limit_<n>:offset_<n>:sort_<field>_<dir>; the entity key is
\* product:<id>.
C18_KeyFormat ==
    /\ \A p \in Procs :
         (Listing(p) /\ proc[p].key # StrEmpty) =>
            LET f == proc[p].filters
            IN proc[p].key =
                 <<"p", "r", "o", "d", "u", "c", "t", "s", ":", "l", "i", "s", "t">>
                 \o Segment(f.cat, <<":", "c", "a", "t", "_">>,
                            IF IsSet(f.cat) THEN UuidStr(Val(f.cat)) ELSE <<>>)
                 \o Segment(f.isActive, <<":", "a", "c", "t", "i", "v", "e", "_">>,
                            IF f.isActive = {TRUE} THEN <<"t", "r", "u", "e">>
                            ELSE <<"f", "a", "l", "s", "e">>)
                 \o Segment(f.inStock, <<":", "s", "t", "o", "c", "k", "_">>,
                            IF f.inStock = {TRUE} THEN <<"t", "r", "u", "e">>
                            ELSE <<"f", "a", "l", "s", "e">>)
                 \o <<":", "l", "i", "m", "i", "t", "_">> \o FmtInt(f.limit)
                 \o <<":", "o", "f", "f", "s", "e", "t", "_">> \o FmtInt(f.offset)
                 \o <<":", "s", "o", "r", "t", "_">> \o f.sortBy \o <<"_">> \o f.sortOrder
    /\ \A p \in Procs :
         (Listing(p) /\ proc[p].asked = Rebuilt(
                [NoFilters EXCEPT !.cat = Some(1), !.isActive = Some(TRUE),
                                  !.inStock = Some(FALSE), !.limit = 1, !.offset = 1,
                                  !.sortBy = StrPrice, !.sortOrder = StrAsc])) =>
            proc[p].key =
                <<"p", "r", "o", "d", "u", "c", "t", "s", ":", "l", "i", "s", "t",
                  ":", "c", "a", "t", "_", "1",
                  ":", "a", "c", "t", "i", "v", "e", "_", "t", "r", "u", "e",
                  ":", "s", "t", "o", "c", "k", "_", "f", "a", "l", "s", "e",
                  ":", "l", "i", "m", "i", "t", "_", "1",
                  ":", "o", "f", "f", "s", "e", "t", "_", "1",
                  ":", "s", "o", "r", "t", "_", "p", "r", "i", "c", "e", "_", "a", "s", "c">>
    /\ \A id \in RenderedIds :
         EntityKey(id) = <<"p", "r", "o", "d", "u", "c", "t", ":">> \o UuidStr(id)
    /\ EntityKey(1) = <<"p", "r", "o", "d", "u", "c", "t", ":", "1">>

\* C18 witness: a List with category, active flag and in-stock flag set is
\* running under its key.
C18_Witness ==
    \E p \in Procs :
        /\ Listing(p)
        /\ proc[p].key # StrEmpty
        /\ IsSet(proc[p].filters.cat)
        /\ IsSet(proc[p].filters.isActive)
        /\ IsSet(proc[p].filters.inStock)
        /\ proc[p].asked.limit = 1
        /\ proc[p].asked.sortBy = StrPrice

\* C19: entity keys and collection keys never collide: no entity key equals a
\* collection key, product:* matches no collection key and products:* matches
\* no entity key.
C19_NamespacesDisjoint ==
    /\ \A p \in Procs :
         (Listing(p) /\ proc[p].key # StrEmpty) =>
            /\ \A id \in RenderedIds : EntityKey(id) # proc[p].key
            /\ ~IsPrefix(StrProductPrefix, proc[p].key)
            /\ IsPrefix(StrProductsPrefix, proc[p].key)
    /\ \A id \in RenderedIds :
         /\ ~IsPrefix(StrProductsPrefix, EntityKey(id))
         /\ IsPrefix(StrProductPrefix, EntityKey(id))
    /\ \A k \in DOMAIN cache :
         ~(IsPrefix(StrProductPrefix, k) /\ IsPrefix(StrProductsPrefix, k))

\* C19 witness: a collection entry is cached while another List runs under a
\* key.
C19_Witness ==
    \E p \in Procs :
        /\ Listing(p)
        /\ proc[p].key # StrEmpty
        /\ CollectionKeys(cache) # {}

\* ---------------------------------------------------------------- C21
\* C21: every ProductList that ListProducts returns, whether its page came
\* from the collection entry or from the store, has has_more equal to
\* offset + limit < total, where limit is the limit after normalization
\* (20 for a limit of zero or less, 100 for a limit above 100).
C21_HasMore ==
    \A p \in Procs :
        (Returned(p, {"ListProducts"}) /\ proc[p].res = "ok") =>
            (proc[p].hasMore <=>
                proc[p].asked.offset + LimitFor(proc[p].asked.limit) < proc[p].total)

\* Both requests returned one after the other, so the second was served from
\* the entry the first wrote; each reported a further page behind offset 1.
C21_Witness ==
    /\ DOMAIN cache # {}
    /\ \A p \in Procs :
          /\ Returned(p, {"ListProducts"}) /\ proc[p].res = "ok"
          /\ ~proc[p].ovl
          /\ proc[p].asked.offset = 1
          /\ proc[p].hasMore

\* ---------------------------------------------------------------- C22
\* The rows of the store that match a filter set, and those among them that
\* the requested order puts ahead of row i.
Hits(f) == {i \in DOMAIN store : Matches(store[i], f)}

Ahead(i, f) ==
    {j \in Hits(f) : IF f.sortOrder = StrAsc THEN Before(store[j], store[i], f.sortBy)
                     ELSE Before(store[i], store[j], f.sortBy)}

AtMost(a, b) == IF a < b THEN a ELSE b

\* C22: when List queries the store (the collection entry missed), the total
\* is the number of rows matching the filter whatever limit and offset are,
\* and the items are the matching rows in sort order restricted to the page
\* [offset, offset + limit): item k is the matching row with exactly
\* offset + k - 1 matching rows ahead of it.
C22_MissReadsStorePage ==
    [][\A p \in Procs :
          (Listing(p) /\ proc[p].pc = "find" /\ proc'[p].pc \in {"lset", "done"}
                      /\ proc'[p].res # "Internal") =>
             LET f == proc[p].filters
                 l == proc'[p]
                 left == IF l.total > f.offset THEN l.total - f.offset ELSE 0
             IN /\ l.total = Cardinality(Hits(f))
                /\ Len(l.items) = AtMost(f.limit, left)
                /\ \A k \in 1..Len(l.items) :
                      /\ l.items[k].id \in Hits(f)
                      /\ l.items[k] = Preload(store[l.items[k].id], categories)
                      /\ Cardinality(Ahead(l.items[k].id, f)) = f.offset + k - 1]_vars

\* A miss returned the second of two matching rows out of three stored.
C22_Witness ==
    \E p \in Procs :
        /\ Listing(p) /\ proc[p].pc = "lset"
        /\ proc[p].filters.offset = 1
        /\ proc[p].total = 2
        /\ Len(proc[p].items) = 1
        /\ proc[p].items[1].id = 1

\* ---------------------------------------------------------------- C23
RECURSIVE After(_, _)
\* the cache n minutes later when no request touches it
After(c, n) == IF n = 0 THEN c ELSE After(Elapse(c), n - 1)

\* the payload a read of the store would put under key k
FromStore(k, st) ==
    IF IsPrefix(StrProductsPrefix, k)
    THEN {MarshalList(FindRows(st, categories, Normalize(f)),
                      CountRows(st, Normalize(f))) :
             f \in {g \in ListInputs : buildCacheKey(Normalize(g)) = k}}
    ELSE {MarshalProduct(Preload(st[i], categories)) :
             i \in {j \in DOMAIN st : EntityKey(j) = k}}

\* C23: staleness is bounded by expiry.  Every entity entry has between 1
\* and 10 minutes left and every collection entry between 1 and 5; the time
\* an entry has left grows only when the entry is rewritten from the store,
\* and then to the full expiry; so after 10 minutes without a rewrite no
\* entry is left, and after 5 minutes no collection entry.
C23_StalenessBoundedByExpiry ==
    [][/\ \A k \in DOMAIN cache' :
            LET full == IF IsPrefix(StrProductsPrefix, k) THEN 5 ELSE 10
            IN /\ cache'[k].ttl \in 1..full
               /\ (k \in DOMAIN cache /\ cache'[k].ttl > cache[k].ttl) =>
                     (cache'[k].ttl = full /\ cache'[k].val \in FromStore(k, store'))
       /\ CollectionKeys(After(cache', 5)) = {}
       /\ DOMAIN After(cache', 10) = {}]_vars

\* The entity entry of product 1 is in its last minute next to a collection
\* entry written later, and a GetByID that missed before the entry was
\* written is about to write it again.
C23_Witness ==
    /\ EntityKey(1) \in DOMAIN cache
    /\ cache[EntityKey(1)].ttl = 1
    /\ \E k \in CollectionKeys(cache) : cache[k].ttl = 3
    /\ \E p \in Procs : proc[p].op = "GetProduct" /\ proc[p].pc = "set"

\* ---------------------------------------------------------------- C24
CategoryPcs == {"cGet", "cByName", "cParent", "cCreate", "cSave", "cDelete", "cList"}

\* every category operation as the service can ask for it, DeleteCategory
\* also at its repository call
CategoryCalls ==
    {StartCreateCategory(req) : req \in CategoryCreates}
    \cup {StartUpdateCategory(id, req) : id \in DOMAIN categories, req \in CategoryUpdates}
    \cup {StartDeleteCategory(id) : id \in DOMAIN categories}
    \cup {[StartDeleteCategory(id) EXCEPT !.pc = "cDelete"] : id \in DOMAIN categories}
    \cup {StartListCategories}

RECURSIVE CacheUntouched(_, _)
\* from l on, each repository category call leaves the cache as it was and
\* does the same whatever the cache holds and whether or not it is reachable
CacheUntouched(l, sh) ==
    IF l.pc \notin CategoryPcs THEN TRUE
    ELSE LET r == Step(l, sh, Up)
         IN /\ r.sh.cache = sh.cache
            /\ Step(l, sh, Down) = r
            /\ Step(l, [sh EXCEPT !.cache = EmptyCache], Up).l = r.l
            /\ CacheUntouched(r.l, r.sh)

\* C24: the repository's category operations (GetCategory, GetCategoryByName,
\* ListCategories, CreateCategory, UpdateCategory, DeleteCategory) never
\* read, write or delete a cache key: the cache is unchanged across each
\* call a goroutine makes, and across each call it could make.
C24_CategoryOpsLeaveCache ==
    [][/\ \A p \in Procs :
            (proc[p].pc \in CategoryPcs /\ proc'[p] # proc[p]) => cache' = cache
       /\ \A l \in CategoryCalls : CacheUntouched(l, Shared)]_vars

\* UpdateCategory has returned while the cache holds an entity entry and a
\* collection entry.
C24_Witness ==
    /\ Returned("g1", {"UpdateCategory"})
    /\ EntityKeys(cache) # {}
    /\ CollectionKeys(cache) # {}

\* ---------------------------------------------------------------- C28
\* C28: each stored product's category id refers to an existing category,
\* and DeleteCategory of a category that a stored product references
\* returns Conflict.
C28_ReferencedCategoryConflict ==
    /\ \A i \in DOMAIN store : store[i].cat \in DOMAIN categories
    /\ \A p \in Procs :
          (/\ proc[p].op = "DeleteCategory" /\ proc[p].pc = "done"
           /\ \E i \in DOMAIN store : store[i].cat = proc[p].id
           /\ \A q \in Procs \ {p} : ~Running(q))
             => proc[p].res = "Conflict"

\* ---------------------------------------------------------------- C25
DbDown == [cache |-> cacheUp, db |-> FALSE]

Unreadable(k) == k \in DOMAIN cache /\ cache[k].val = <<>>

\* C25: GetProduct returns NotFound only when neither the cache (as a
\* readable entry) nor the store holds the id and returns the product only
\* when one of them does; when the
\* store read fails for another reason it returns Internal; ListProducts
\* returns Internal whenever a store read of it fails; and every one of these
\* error returns leaves the cache as it was.
C25_ReadErrors ==
    [][\A p \in Procs :
          LET l == proc[p]
              m == proc'[p]
              held == \/ l.id \in DOMAIN store
                      \/ CacheGet(cache, EntityKey(l.id), cacheUp).ok
                           /\ ~Unreadable(EntityKey(l.id))
              failing == Step(l, Shared, DbDown)
          IN /\ (l.op = "GetProduct" /\ Running(p) /\ m.pc = "done") =>
                   /\ m.res \in {"ok", "NotFound", "Internal"}
                   /\ m.res = "NotFound" => ~held
                   /\ m.res = "ok" => held
                   /\ m.res # "ok" => cache' = cache
             /\ (l.op = "ListProducts" /\ Running(p) /\ m.pc = "done" /\ m.res # "ok") =>
                   (m.res = "Internal" /\ cache' = cache)
             /\ (l.op \in {"GetProduct", "ListProducts"} /\ l.pc \in {"first", "count", "find"}) =>
                   /\ failing.l.pc = "done" /\ failing.l.res = "Internal"
                   /\ failing.sh.cache = cache]_vars

\* GetProduct of a stored product has returned Internal and nothing was
\* cached for it.
C25_Witness ==
    \E p \in Procs :
        /\ proc[p].op = "GetProduct" /\ proc[p].pc = "done" /\ proc[p].res = "Internal"
        /\ proc[p].id \in DOMAIN store
        /\ EntityKey(proc[p].id) \notin DOMAIN cache

\* ---------------------------------------------------------------- C26
\* C26: a cached payload that cannot be deserialized is treated as a miss.
\* GetByID then returns the store's row and leaves a fresh serialization of
\* it under the key (NotFound when the store has no such row); List returns
\* the store's page and total and leaves a fresh serialization of them.
C26_UnreadableEntryIsMiss ==
    /\ \A id \in ProductIds :
          Unreadable(EntityKey(id)) =>
             LET r == Run(StartGetProduct(id), Shared, Up)
             IN IF id \in DOMAIN store
                THEN /\ r.l.res = "ok"
                     /\ r.l.prod = Preload(store[id], categories)
                     /\ r.sh.cache[EntityKey(id)].val = MarshalProduct(r.l.prod)
                ELSE r.l.res = "NotFound"
    /\ \A f \in CacheableInputs :
          Unreadable(buildCacheKey(Normalize(f))) =>
             LET r == Run(StartListProducts(f), Shared, Up)
             IN /\ r.l.res = "ok"
                /\ r.l.items = StoreItems(f)
                /\ r.l.total = StoreTotal(f)
                /\ r.sh.cache[buildCacheKey(Normalize(f))].val
                       = MarshalList(StoreItems(f), StoreTotal(f))

\* A GetByID found the key in the reachable cache and is about to query the
\* store all the same; the collection entry is unreadable too.
C26_Witness ==
    /\ cacheUp
    /\ \E p \in Procs :
          /\ proc[p].op = "GetProduct" /\ proc[p].pc = "first"
          /\ Unreadable(EntityKey(proc[p].id))
          /\ proc[p].id \in DOMAIN store
    /\ \E f \in CacheableInputs : Unreadable(buildCacheKey(Normalize(f)))

\* ---------------------------------------------------------------- C27
\* C27: UpdateProduct changes only the fields present in the request: across
\* its store write, every field of the product that the request leaves out
\* keeps the value the store held just before the write, also when another
\* UpdateProduct of the same product runs concurrently or the product was
\* read from its cache entry.
C27_UpdateLeavesOtherFields ==
    [][\A p \in Procs :
          (/\ proc[p].op = "UpdateProduct" /\ proc[p].pc = "save"
           /\ proc'[p].pc = "del"
           /\ proc[p].id \in DOMAIN store) =>
             LET req == proc[p].ureq
                 old == store[proc[p].id]
                 new == store'[proc[p].id]
             IN /\ ~IsSet(req.name) => new.name = old.name
                /\ ~IsSet(req.price) => new.price = old.price
                /\ ~IsSet(req.cat) => new.cat = old.cat
                /\ ~IsSet(req.stock) => new.stock = old.stock
                /\ ~IsSet(req.sku) => new.sku = old.sku
                /\ ~IsSet(req.active) => new.active = old.active]_vars

\* ---------------------------------------------------------------- C29
\* C29: a deleted product stays deleted.  Once DeleteProduct(id) has returned
\* success the store has no row with that id, whatever UpdateProduct(id) runs
\* later or concurrently; and UpdateProduct on an id absent from the store
\* returns NotFound and leaves the store as it was.
C29_DeletedStaysDeleted ==
    /\ \A p \in Procs :
          Returned(p, {"DeleteProduct"}) => proc[p].id \notin DOMAIN store
    /\ \A id \in ProductIds, req \in PriceUpdates :
          (id \notin DOMAIN store /\ Quiet) =>
             LET r == Run(StartUpdateProduct(id, req), Shared, Env)
             IN r.l.res = "NotFound" /\ r.sh.store = store

\* ---------------------------------------------------------------- C30
\* C30: once DeleteProduct(id) has returned success and the requests that
\* were in flight during it have ended, GetProduct(id) returns NotFound and
\* a second DeleteProduct(id) returns NotFound.
C30_GetAfterDeleteNotFound ==
    \A p \in Procs :
        (Returned(p, {"DeleteProduct"}) /\ Quiet) =>
            /\ GetNow(proc[p].id).res = "NotFound"
            /\ Run(StartDeleteProduct(proc[p].id), Shared, Env).l.res = "NotFound"

\* ---------------------------------------------------------------- C31
\* C31: no two stored products share an SKU, and a CreateProduct or
\* UpdateProduct whose store write is refused because another product
\* holds the SKU it asks for returns Conflict.
C31_SkuUniqueOrConflict ==
    [][/\ \A i, j \in DOMAIN store' : i # j => store'[i].sku # store'[j].sku
       /\ \A p \in Procs :
            (/\ proc[p].pc \in {"create", "save"} /\ proc'[p].pc = "done"
             /\ ~SkuFree(store, IF proc[p].pc = "create" THEN 0 ELSE proc[p].id,
                          IF proc[p].pc = "create" THEN proc[p].creq.sku
                          ELSE proc[p].prod.sku))
               => proc'[p].res = "Conflict"]_vars

\* ---------------------------------------------------------------- C32
\* C32: a rejected CreateProduct has no effect: when it returns Validation,
\* Conflict (the SKU exists) or NotFound (the category is missing), the
\* store and the cache are exactly as they were before the call.
C32_RejectedCreateHasNoEffect ==
    [][\A p \in Procs :
          (/\ proc'[p] # proc[p]
           /\ proc'[p].op = "CreateProduct" /\ proc'[p].pc = "done"
           /\ proc'[p].res \in {"Validation", "Conflict", "NotFound"})
             => (store' = store /\ cache' = cache /\ nextId' = nextId)]_vars

\* A CreateProduct with the SKU of a stored, cached product was rejected and
\* the product and its entry are still there.
C32_Witness ==
    \E p \in Procs :
        /\ proc[p].op = "CreateProduct" /\ proc[p].pc = "done"
        /\ proc[p].res = "Conflict"
        /\ \E i \in DOMAIN store : EntityKey(i) \in DOMAIN cache
        /\ CollectionKeys(cache) # {}

\* ---------------------------------------------------------------- C33
\* sort_by and sort_order are any strings of the caller: among them the
\* pieces of "created_at" and "desc" cut at another underscore
StrCreated == SubSeq(StrCreatedAt, 1, 7)
StrAtDesc == SubSeq(StrCreatedAt, 9, 10) \o <<"_">> \o StrDesc

SortInputs ==
    {[PlainFilters EXCEPT !.cat = c, !.isActive = a, !.limit = n, !.offset = o,
                          !.sortBy = sb, !.sortOrder = so] :
        c \in {None, Some(1)}, a \in {None, Some(TRUE)}, n \in {1, DefaultLimit},
        o \in {0, 1}, sb \in {StrCreatedAt, StrCreated, StrPrice},
        so \in {StrDesc, StrAtDesc, StrAsc}}

SameQuery(f, g) ==
    /\ f.cat = g.cat /\ f.isActive = g.isActive /\ f.inStock = g.inStock
    /\ f.limit = g.limit /\ f.offset = g.offset
    /\ f.sortBy = g.sortBy /\ f.sortOrder = g.sortOrder

\* C33: collection keys are injective on what the store is asked: a key a
\* List has written is the key of no filter set that differs in category,
\* active flag, limit, offset, sort field or sort direction (free-form
\* strings), and so a List returns what it returns with an empty cache.
C33_CollectionKeysInjective ==
    \A p \in Procs :
        (Returned(p, {"ListProducts"}) /\ buildCacheKey(proc[p].filters) \in DOMAIN cache) =>
            \A g \in SortInputs :
                buildCacheKey(Normalize(g)) = buildCacheKey(proc[p].filters) =>
                    /\ SameQuery(Normalize(g), proc[p].filters)
                    /\ LET hot == ListNow(g)
                           cold == Run(StartListProducts(g),
                                       [Shared EXCEPT !.cache = EmptyCache], Up).l
                       IN /\ hot.res = cold.res
                          /\ hot.res = "ok" =>
                                (hot.items = cold.items /\ hot.total = cold.total)

\* ---------------------------------------------------------------- C34
\* C34: the category embedded in a product returned by GetByID equals the
\* store's current category row: once UpdateCategory or DeleteCategory has
\* succeeded, the next GetByID of a product of that category returns the
\* category as the store holds it now (none when the row is gone).
C34_EmbeddedCategoryCurrent ==
    Returned("g1", {"UpdateCategory", "DeleteCategory"}) =>
        \A i \in DOMAIN store :
            store[i].cat = proc["g1"].id =>
                LET r == GetNow(i)
                IN r.res = "ok" =>
                     r.prod.category = Preload(store[i], categories).category

\* ---------------------------------------------------------------- C35
\* offset is any integer of the caller (strconv.Atoi, no range check)
OffsetInputs ==
    {[PlainFilters EXCEPT !.offset = o, !.limit = n] : o \in {-1, 0, 1}, n \in {1, 3}}

\* the matching rows that the requested order puts after row i
Behind(i, f) == Hits(f) \ (Ahead(i, f) \cup {i})

\* C35: has_more is truthful for every offset the handler accepts, negative
\* ones included: it is true exactly when at least one matching row lies
\* after the last row of the returned page.
C35_HasMoreTruthful ==
    \A f \in OffsetInputs :
        LET r == ListNow(f)
        IN r.res = "ok" =>
             (r.hasMore <=>
                 /\ Len(r.items) > 0
                 /\ Behind(r.items[Len(r.items)].id, Normalize(f)) # {})

====
